---- MODULE Spec2Model ----
(***************************************************************************)
(* The trending-news feed aggregator: the route handler GET of             *)
(* tranding-news/app/api/trending/route.ts, with the pure helpers it uses  *)
(* (extractImage, the tag-stripping regular expression, the fallback       *)
(* chains of the map callback).                                            *)
(*                                                                         *)
(* JavaScript values are tagged records; a JavaScript string is a sequence *)
(* of one-character strings, so that the regular expressions and slice     *)
(* are computed character by character.                                    *)
(***************************************************************************)
EXTENDS Integers, Sequences, FiniteSets, TLC

VARIABLES pc, idx, results, upstream, response, inflight, world, log, peer,
          cpc, feeds, sources, selected, loading, sidebarOpen, requests, reply

\* the state of the page component Home
clientVars == <<cpc, feeds, sources, selected, loading, sidebarOpen, requests, reply>>

\* the state of the invocation of GET that is running
serverVars == <<pc, idx, results, upstream, response, inflight, world>>

vars == <<serverVars, log, peer, clientVars>>

---------------------------------------------------------------------------
(* Bounds of the model. *)

\* longest upstream feed the environment returns
MaxItems == 12

\* all strings over Alphabet up to this length are tried as descriptions
MaxLen == 4

\* GET is invoked at most this many times, one invocation after the other
MaxCalls == 3

---------------------------------------------------------------------------
(* Program constants. *)

\* parsed.items.slice(0, 10)
MaxArticles == 10

\* .slice(0, 225)
SnippetMax == 225

---------------------------------------------------------------------------
(* JavaScript values. *)

Undefined == [t |-> "undefined"]

Null == [t |-> "null"]

Str(s) == [t |-> "string", s |-> s]

Arr(a) == [t |-> "array", a |-> a]

Num(n) == [t |-> "number", n |-> n]

\* a plain object with no property the handler reads
PlainObject == [t |-> "object"]

\* new Error(message)
ErrorObject(m) == [t |-> "error", message |-> Str(m)]

\* the channel-level image object of a parsed feed: { url }
ImageObject(u) == [t |-> "image", url |-> u]

\* the TypeError raised by reading a property of null or undefined
TypeError == [t |-> "error", message |-> Str(<<"T", "y", "p", "e">>)]

Truthy(v) ==
  CASE v.t = "undefined" -> FALSE
    [] v.t = "null" -> FALSE
    [] v.t = "string" -> Len(v.s) > 0
    [] v.t = "number" -> v.n # 0
    [] OTHER -> TRUE

\* a || b
Or(a, b) == IF Truthy(a) THEN a ELSE b

\* a ?? b
Nullish(a, b) == IF a.t \in {"undefined", "null"} THEN b ELSE a

Min(a, b) == IF a < b THEN a ELSE b

\* x.slice(0, n) of a string or an array
Slice(x, n) == SubSeq(x, 1, Min(n, Len(x)))

---------------------------------------------------------------------------
(* The configured sources. *)

FEEDS ==
  << [name |-> <<"G","o","o","g","l","e"," ","N","e","w","s">>,
      url |-> "https://news.google.com/rss?hl=en-US&gl=US&ceid=US:en"],
     [name |-> <<"T","e","c","h","C","r","u","n","c","h">>,
      url |-> "https://techcrunch.com/feed/"],
     [name |-> <<"B","B","C"," ","W","o","r","l","d">>,
      url |-> "http://feeds.bbci.co.uk/news/world/rss.xml"],
     [name |-> <<"H","a","c","k","e","r"," ","N","e","w","s">>,
      url |-> "https://hnrss.org/frontpage"],
     [name |-> <<"T","h","e"," ","V","e","r","g","e">>,
      url |-> "https://www.theverge.com/rss/index.xml"],
     [name |-> <<"W","i","r","e","d">>,
      url |-> "https://www.wired.com/feed/rss"],
     [name |-> <<"E","n","g","a","d","g","e","t">>,
      url |-> "https://www.engadget.com/rss.xml"],
     [name |-> <<"K","a","u","n","d","a","l"," ","V","I","P">>,
      url |-> "https://kaundal.vip/feed/"] >>

FeedNames == {FEEDS[i].name : i \in 1..Len(FEEDS)}

---------------------------------------------------------------------------
(* Small helpers on sets of positions. *)

SetMin(S) == CHOOSE x \in S : \A y \in S : x <= y

SetMax(S) == CHOOSE x \in S : \A y \in S : x >= y

---------------------------------------------------------------------------
(* desc.replace(/<\/?[^>]+(>|$)/g, "")                                      *)
(* A match starts at a '<' whose next character exists and is not '>'      *)
(* (the optional '/' is given back when nothing else follows it); it runs  *)
(* over the longest stretch of characters other than '>' and takes the     *)
(* '>' that ends the stretch, or stops at the end of the string.           *)

\* the first position at or after p that holds '>', or Len(s) + 1
NextGt(s, p) ==
  LET G == {q \in p..Len(s) : s[q] = ">"}
  IN IF G = {} THEN Len(s) + 1 ELSE SetMin(G)

TagStartsAt(s, p) ==
  /\ s[p] = "<"
  /\ p + 1 <= Len(s)
  /\ s[p + 1] # ">"

\* the scan from position p: keep the text up to the next match, skip the match
RECURSIVE StripFrom(_, _)
StripFrom(s, p) ==
  LET T == {q \in p..Len(s) : TagStartsAt(s, q)}
  IN IF T = {} THEN SubSeq(s, p, Len(s))
     ELSE SubSeq(s, p, SetMin(T) - 1) \o StripFrom(s, NextGt(s, SetMin(T) + 1) + 1)

\* the same replace without the g flag: only the first match is removed
StripTagsOnce(s) ==
  LET T == {q \in 1..Len(s) : TagStartsAt(s, q)}
  IN IF T = {} THEN s
     ELSE SubSeq(s, 1, SetMin(T) - 1) \o SubSeq(s, NextGt(s, SetMin(T) + 1) + 1, Len(s))

StripTags(s) == StripFrom(s, 1)

---------------------------------------------------------------------------
(* extractImage: html.match(/<img [^>]*src=["']([^"']+)["']/i)              *)

Quotes == {"\"", "'"}

\* the i flag, for the letters the pattern holds
Lower(c) ==
  CASE c = "I" -> "i"
    [] c = "M" -> "m"
    [] c = "G" -> "g"
    [] c = "S" -> "s"
    [] c = "R" -> "r"
    [] c = "C" -> "c"
    [] OTHER -> c

ImgOpen == <<"<", "i", "m", "g", " ">>

SrcEq == <<"s", "r", "c", "=">>

LitAt(s, p, lit) ==
  /\ p + Len(lit) - 1 <= Len(s)
  /\ \A k \in 1..Len(lit) : Lower(s[p + k - 1]) = lit[k]

\* the first position at or after p that holds a quote, or Len(s) + 1
NextQuote(s, p) ==
  LET Q == {q \in p..Len(s) : s[q] \in Quotes}
  IN IF Q = {} THEN Len(s) + 1 ELSE SetMin(Q)

\* src=["']([^"']+)["'] matches with its 's' at position j
SrcAt(s, j) ==
  /\ LitAt(s, j, SrcEq)
  /\ j + 4 <= Len(s)
  /\ s[j + 4] \in Quotes
  /\ NextQuote(s, j + 5) > j + 5
  /\ NextQuote(s, j + 5) <= Len(s)

\* the positions of src= that [^>]* can reach from an "<img " at p
SrcAfter(s, p) ==
  {j \in (p + 5)..Len(s) :
     /\ \A k \in (p + 5)..(j - 1) : s[k] # ">"
     /\ SrcAt(s, j)}

ImgStarts(s) == {p \in 1..Len(s) : LitAt(s, p, ImgOpen) /\ SrcAfter(s, p) # {}}

\* [^>]* taken as lazy: the first src= it can reach
ImgMatchFirstSrc(s) ==
  LET p == SetMin(ImgStarts(s))
      j == SetMin(SrcAfter(s, p))
  IN SubSeq(s, j + 5, NextQuote(s, j + 5) - 1)

\* the leftmost "<img "; [^>]* is greedy, so the last src= it can reach
ImgMatch(s) ==
  LET p == SetMin(ImgStarts(s))
      j == SetMax(SrcAfter(s, p))
  IN SubSeq(s, j + 5, NextQuote(s, j + 5) - 1)

extractImage(html) ==
  IF ~Truthy(html) THEN Undefined
  ELSE IF ImgStarts(html.s) = {} THEN Undefined
  ELSE Str(ImgMatch(html.s))

---------------------------------------------------------------------------
(* The map callback of GET: one upstream entry to one article. *)

ResolveDescSummaryFirst(item) ==
  Or(Or(Or(Or(item.contentSnippet, item.contentEncoded), item.content_encoded),
        item.description),
     Str(<<>>))

ResolveDescNoDefault(item) ==
  Or(Or(Or(item.contentEncoded, item.contentSnippet), item.content_encoded),
     item.description)

\* const desc = contentEncoded || contentSnippet || ['content:encoded'] || description || ""
ResolveDesc(item) ==
  Or(Or(Or(Or(item.contentEncoded, item.contentSnippet), item.content_encoded),
        item.description),
     Str(<<>>))

\* a normalisation that forgets to wrap a scalar
CategoriesNoWrap(c) == IF c.t = "array" THEN c ELSE Arr(<<>>)

\* Array.isArray(c) ? c : typeof c === "string" ? [c] : []
Categories(c) ==
  IF c.t = "array" THEN c
  ELSE IF c.t = "string" THEN Arr(<<c>>)
  ELSE Arr(<<>>)

\* parsed.image?.url
ImageUrl(parsed) ==
  IF parsed.image.t \in {"undefined", "null"} THEN Undefined ELSE parsed.image.url

ChannelImageDescFirst(parsed) == Or(extractImage(parsed.description), ImageUrl(parsed))

\* parsed.image?.url || extractImage(parsed.description)
ChannelImage(parsed) == Or(ImageUrl(parsed), extractImage(parsed.description))

\* the summary tried before the description
ImgSummaryFirst(item, desc, channelImage) ==
  Or(Or(extractImage(item.contentSnippet), extractImage(desc)), channelImage)

\* extractImage(desc) || extractImage(item.contentSnippet) || channelImage
Img(item, desc, channelImage) ==
  Or(Or(extractImage(desc), extractImage(item.contentSnippet)), channelImage)

\* the feed title tried before the creator
ChannelTitleFirst(item, parsed, feed) ==
  Or(Or(parsed.title, item.creator), Str(feed.name))

\* item.creator ?? parsed.title ?? feed.name
ChannelNullish(item, parsed, feed) ==
  Nullish(Nullish(item.creator, parsed.title), Str(feed.name))

\* item.creator || parsed.title || feed.name
Channel(item, parsed, feed) == Or(Or(item.creator, parsed.title), Str(feed.name))

Ellipsis == <<".", ".", ".">>

\* the ellipsis appended only when the text was cut
ContentSnippetIfCut(desc) ==
  IF Len(StripTags(desc.s)) > SnippetMax
  THEN Str(Slice(StripTags(desc.s), SnippetMax) \o Ellipsis)
  ELSE Str(StripTags(desc.s))

\* desc.replace(/<\/?[^>]+(>|$)/g, "").slice(0, 225) + "..."
ContentSnippet(desc) == Str(Slice(StripTags(desc.s), SnippetMax) \o Ellipsis)

BuildArticleTrim(item, parsed, feed, channelImage) ==
  LET desc == ResolveDesc(item)
      Trim(v) == IF v.t = "string" THEN Str(SelectSeq(v.s, LAMBDA c : c # " ")) ELSE v
  IN [title |-> Nullish(Trim(item.title), Str(<<>>)),
      link |-> Nullish(Trim(item.link), Str(<<>>)),
      pubDate |-> Nullish(Trim(item.pubDate), Str(<<>>)),
      channel |-> Channel(item, parsed, feed),
      contentSnippet |-> ContentSnippet(desc),
      categories |-> Categories(item.categories),
      image |-> Img(item, desc, channelImage)]

BuildArticle(item, parsed, feed, channelImage) ==
  LET desc == ResolveDesc(item)
  IN [title |-> Nullish(item.title, Str(<<>>)),
      link |-> Nullish(item.link, Str(<<>>)),
      pubDate |-> Nullish(item.pubDate, Str(<<>>)),
      channel |-> Channel(item, parsed, feed),
      contentSnippet |-> ContentSnippet(desc),
      categories |-> Categories(item.categories),
      image |-> Img(item, desc, channelImage)]

\* slice(0, 9): one entry short
TakeItemsShort(items) == Slice(items, MaxArticles - 1)

\* slice(-10): the last ten entries instead of the first ten
TakeItemsLast(items) ==
  SubSeq(items, IF Len(items) > MaxArticles THEN Len(items) - MaxArticles + 1 ELSE 1,
         Len(items))

\* parsed.items.slice(0, 10)
TakeItems(items) == Slice(items, MaxArticles)

\* parsed.items.slice(0, 10).map(item => ...)
MapItems(parsed, feed) ==
  LET channelImage == ChannelImage(parsed)
      taken == TakeItems(parsed.items)
  IN [j \in 1..Len(taken) |-> BuildArticle(taken[j], parsed, feed, channelImage)]

---------------------------------------------------------------------------
(* The results object and the responses. *)

\* an object keeps its string keys in insertion order: a sequence of entries
HasKey(o, k) == \E i \in 1..Len(o) : o[i].k = k

KeyIndex(o, k) == CHOOSE i \in 1..Len(o) : o[i].k = k

\* an assignment that leaves out a source with no article
ObjSetSkipEmpty(o, k, v) ==
  IF v = <<>> THEN o
  ELSE IF HasKey(o, k) THEN [o EXCEPT ![KeyIndex(o, k)].v = v]
  ELSE Append(o, [k |-> k, v |-> v])

ObjSetFront(o, k, v) ==
  IF HasKey(o, k) THEN [o EXCEPT ![KeyIndex(o, k)].v = v]
  ELSE <<[k |-> k, v |-> v]>> \o o

\* o[k] = v
ObjSet(o, k, v) ==
  IF HasKey(o, k) THEN [o EXCEPT ![KeyIndex(o, k)].v = v]
  ELSE Append(o, [k |-> k, v |-> v])

ObjGet(o, k) == o[KeyIndex(o, k)].v

\* Object.keys(o)
ObjKeys(o) == [i \in 1..Len(o) |-> o[i].k]

KeySet(o) == {o[i].k : i \in 1..Len(o)}

\* JSON drops the properties whose value is undefined
JsonObject(o) == [k \in {f \in DOMAIN o : o[f] # Undefined} |-> o[k]]

JsonFeeds(res) ==
  [i \in 1..Len(res) |->
     [k |-> res[i].k,
      v |-> [j \in 1..Len(res[i].v) |-> JsonObject(res[i].v[j])]]]

NoResponse == [t |-> "none"]

\* Response.json(body, { status })
ResponseJson(body, status) == [t |-> "response", status |-> status, body |-> body]

\* GET's promise rejects
Rejected(e) == [t |-> "rejected", reason |-> e]

\* e.message
Message(e) == IF "message" \in DOMAIN e THEN e.message ELSE Undefined

\* catch (e: any) { return Response.json({ error: e.message }, { status: 500 }) }
Catch(e) ==
  IF e.t \in {"undefined", "null"} THEN Rejected(TypeError)
  ELSE ResponseJson(JsonObject([error |-> Message(e)]), 500)

---------------------------------------------------------------------------
(* What parser.parseURL can give: the upstream feeds and the thrown values. *)

Digits == <<"0", "1", "2", "3", "4", "5", "6", "7", "8", "9">>

\* the decimal digits of k < 100, so that every entry of a feed is told apart
NumStr(k) ==
  IF k < 10 THEN <<Digits[k + 1]>>
  ELSE <<Digits[(k \div 10) + 1], Digits[(k % 10) + 1]>>

Rep(c, n) == [i \in 1..n |-> c]

ImgTag(q, u) == ImgOpen \o SrcEq \o <<q>> \o u \o <<q, ">">>

TextA == <<"A">>

TextB == <<"B">>

TextC == <<"C">>

TextD == <<"D">>

Tech == <<"T", "e", "c", "h">>

World == <<"W", "o", "r", "l", "d">>

\* an entry with no field at all
BareItem ==
  [title |-> Undefined, link |-> Undefined, pubDate |-> Undefined,
   creator |-> Undefined, contentEncoded |-> Undefined,
   contentSnippet |-> Undefined, content_encoded |-> Undefined,
   description |-> Undefined, categories |-> Undefined]

\* the k-th entry of an upstream feed: three kinds of entry take turns
ItemAt(k) ==
  LET named == [BareItem EXCEPT !.title = Str(NumStr(k)),
                                !.link = Str(<<"/">> \o NumStr(k))]
  IN CASE k % 3 = 1 ->
            [named EXCEPT !.creator = Str(<<"K">>),
                          !.pubDate = Str(<<"d">> \o NumStr(k)),
                          !.contentEncoded =
                             Str(<<"<", "b", ">", "x", "<", "/", "b", ">">>
                                 \o ImgTag("\"", TextA)),
                          !.categories = Arr(<<Str(Tech), Str(World)>>)]
       [] k % 3 = 2 ->
            [named EXCEPT !.description = Str(<<"d">>),
                          !.categories = Str(Tech)]
       [] OTHER -> named

FeedOf(n, title, image, description) ==
  [title |-> title, image |-> image, description |-> description,
   items |-> [k \in 1..n |-> ItemAt(k)]]

EmptyFeed == FeedOf(0, Undefined, Undefined, Undefined)

\* the feeds of Spec: no entry, fewer than ten, more than ten
ShortFeed == FeedOf(3, Str(<<"T">>), ImageObject(Str(TextC)), Undefined)

LongFeed == FeedOf(MaxItems, Undefined, Undefined, Str(ImgTag("'", TextD)))

UpstreamFeeds == { EmptyFeed, ShortFeed, LongFeed }

\* a feed of one entry
FeedOfItem(item, title, image, description) ==
  [title |-> title, image |-> image, description |-> description,
   items |-> <<item>>]

Alphabet == {"<", ">", "/", "a"}

\* every string over Alphabet of length at most MaxLen
ShortStrings == UNION {[1..n -> Alphabet] : n \in 0..MaxLen}

\* strings around the 225-character cut, with markup before, across and after it
LongStrings ==
  LET pads == {Rep("a", n) : n \in {SnippetMax - 2, SnippetMax - 1, SnippetMax}}
      ends == {<<>>, <<"a">>, <<"a", "a", "a">>, <<"<">>, <<"<", ">">>,
               <<"<", "a", ">">>, <<"<", "a", ">", "a", "a">>, <<"<", ">", "a">>}
  IN {h \o p \o e : h \in {<<>>, <<"<", "a", ">">>, <<"<", ">">>}, p \in pads, e \in ends}

\* every description text, the other fields absent
TextFeeds ==
  {FeedOfItem([BareItem EXCEPT !.contentEncoded = Str(s)],
              Undefined, Undefined, Undefined) :
     s \in ShortStrings \cup LongStrings}

Plain == <<"p">>

\* the fields the description and the image are resolved from. The parser is
\* configured (customFields) to copy the content:encoded element to contentEncoded:
\* under its own name the element is not exposed, or exposed with the same value
FieldFeeds ==
  {FeedOfItem([BareItem EXCEPT !.contentEncoded = f[1], !.contentSnippet = f[2],
                               !.content_encoded = IF f[3] THEN f[1] ELSE Undefined,
                               !.description = f[4]],
              Undefined, f[5], f[6]) :
     f \in {Undefined, Str(<<>>), Str(Plain), Str(ImgTag("\"", TextA))}
           \X {Undefined, Str(Plain \o Plain), Str(ImgTag("'", TextB))}
           \X BOOLEAN
           \X {Undefined, Str(<<"d">>)}
           \X {Undefined, ImageObject(Str(<<>>)), ImageObject(Str(TextC))}
           \X {Undefined, Str(ImgTag("\"", TextD))}}

\* creator and channel title: absent, empty, present
ChannelFeeds ==
  {FeedOfItem([BareItem EXCEPT !.creator = c], t, Undefined, Undefined) :
     c \in {Undefined, Str(<<>>), Str(<<"K">>)},
     t \in {Undefined, Str(<<>>), Str(<<"T">>)}}

CategoryValues ==
  { Undefined, Null, Num(7), PlainObject, Str(<<>>), Str(Tech),
    Arr(<<>>), Arr(<<Str(Tech)>>), Arr(<<Str(Tech), Str(World)>>),
    Arr(<<Str(World), Str(Tech)>>) }

CategoryFeeds ==
  {FeedOfItem([BareItem EXCEPT !.categories = c], Undefined, Undefined, Undefined) :
     c \in CategoryValues}

\* every feed length up to MaxItems
LengthFeeds == {FeedOf(n, Undefined, Undefined, Undefined) : n \in 1..MaxItems}

\* the content:encoded element exposed under both names; each of it, the summary
\* and the description absent, empty or present
AliasFeeds ==
  {FeedOfItem([BareItem EXCEPT !.contentEncoded = f[1], !.content_encoded = f[1],
                               !.contentSnippet = f[2], !.description = f[3]],
              Undefined, Undefined, Undefined) :
     f \in {Undefined, Str(<<>>), Str(<<"e">>)}
           \X {Undefined, Str(<<>>), Str(Plain \o Plain)}
           \X {Undefined, Str(<<>>), Str(<<"d">>)}}

\* feeds of three entries with and without an explicit channel image and an img
\* tag in the channel description
ChannelImageFeeds ==
  {FeedOf(3, Undefined, i, d) :
     i \in {Undefined, ImageObject(Undefined), ImageObject(Str(<<>>)),
            ImageObject(Str(TextC))},
     d \in {Undefined, Str(Plain), Str(ImgTag("\"", TextD))}}

EntryFeeds ==
  TextFeeds \cup FieldFeeds \cup AliasFeeds \cup ChannelFeeds \cup CategoryFeeds
  \cup LengthFeeds \cup ChannelImageFeeds

ThrownValues ==
  { ErrorObject(<<"E">>), Str(<<"b", "o", "o", "m">>), PlainObject, Null, Undefined }

---------------------------------------------------------------------------
(* GET, one invocation.                                                    *)
(*   pc        where the handler stands: idle, loop, await, done           *)
(*   idx       the position in FEEDS of the for-of loop                    *)
(*   results   the local results object                                    *)
(*   upstream  what parser.parseURL gave this invocation, fetch by fetch   *)
(*   response  what GET returned                                           *)
(*   inflight  the positions in FEEDS whose parseURL promise is pending    *)
(*   world     what every source would answer during this invocation, when *)
(*             that is fixed as the invocation starts (<<>> otherwise)     *)
(*   log       the invocations that ended before this one: for each, what  *)
(*             the sources answered and what GET returned                  *)
(*   peer      the locals of a second invocation of GET, suspended while   *)
(*             the first runs (NoPeer when there is one invocation only)   *)
(* Home, the page component of tranding-news/app/page.tsx.                 *)
(*   cpc          where the page stands: mounting, fetching, parsing,      *)
(*                settled, rejected                                        *)
(*   feeds, sources, selected, loading, sidebarOpen   its useState values  *)
(*   requests     how many times fetch("/api/trending") was called         *)
(*   reply        what fetch settled with                                  *)

NoPeer == [t |-> "none"]

NoReply == [t |-> "none"]

Init ==
  /\ pc = "idle"
  /\ idx = 1
  /\ results = <<>>
  /\ upstream = <<>>
  /\ response = NoResponse
  /\ inflight = {}
  /\ world = <<>>
  /\ log = <<>>
  /\ peer = NoPeer
  /\ cpc = "mounting"
  /\ feeds = <<>>
  /\ sources = <<>>
  /\ selected = <<>>
  /\ loading = TRUE
  /\ sidebarOpen = FALSE
  /\ requests = 0
  /\ reply = NoReply

LoopStartStale == idx

\* for (const feed of FEEDS): a fresh iterator, at the first source
LoopStart == 1

\* try { const results = {}; for (const feed of FEEDS) ...
Invoke ==
  /\ pc = "idle"
  /\ pc' = "loop"
  /\ idx' = LoopStart
  /\ results' = <<>>
  /\ upstream' = <<>>
  /\ UNCHANGED <<response, inflight, world, log, peer, clientVars>>

StartFetchAll ==
  /\ pc = "loop"
  /\ idx <= Len(FEEDS)
  /\ pc' = "await"
  /\ inflight' = inflight \cup (idx..Len(FEEDS))
  /\ UNCHANGED <<idx, results, upstream, response, world, log, peer, clientVars>>

StartFetchCached ==
  /\ pc = "loop"
  /\ idx <= Len(FEEDS)
  /\ IF /\ log # <<>>
        /\ log[Len(log)].response.t = "response"
        /\ log[Len(log)].response.status = 200
     THEN /\ results' = ObjSet(results, FEEDS[idx].name,
                               ObjGet(log[Len(log)].response.body.feeds, FEEDS[idx].name))
          /\ idx' = idx + 1
          /\ UNCHANGED <<pc, inflight>>
     ELSE /\ pc' = "await"
          /\ inflight' = inflight \cup {idx}
          /\ UNCHANGED <<idx, results>>
  /\ UNCHANGED <<upstream, response, world, log, peer, clientVars>>

\* parser.parseURL(feed.url) is called and awaited
StartFetch ==
  /\ pc = "loop"
  /\ idx <= Len(FEEDS)
  /\ pc' = "await"
  /\ inflight' = inflight \cup {idx}
  /\ UNCHANGED <<idx, results, upstream, response, world, log, peer, clientVars>>

\* desc.replace is called in the map callback: a TypeError unless desc is a string
MapThrows(parsed) ==
  \E j \in 1..Len(TakeItems(parsed.items)) :
    ResolveDesc(TakeItems(parsed.items)[j]).t # "string"

FetchResolveStaleFeed(F) ==
  /\ pc = "await"
  /\ \E parsed \in F :
       /\ upstream' = Append(upstream,
                             [ok |-> TRUE, url |-> FEEDS[idx].url, parsed |-> parsed])
       /\ IF MapThrows(parsed)
          THEN /\ response' = Catch(TypeError)
               /\ pc' = "done"
               /\ UNCHANGED <<idx, results>>
          ELSE /\ results' = ObjSet(results, FEEDS[idx].name,
                                    MapItems(parsed, FEEDS[IF idx > 1 THEN idx - 1 ELSE idx]))
               /\ idx' = idx + 1
               /\ pc' = "loop"
               /\ UNCHANGED response
  /\ inflight' = inflight \ {idx}
  /\ UNCHANGED <<world, log, peer, clientVars>>

\* the awaited promise fulfils with a feed of F: the loop body runs to its end,
\* or an exception of the map callback passes control to the catch clause
FetchResolveFrom(F) ==
  /\ pc = "await"
  /\ \E parsed \in F :
       /\ upstream' = Append(upstream,
                             [ok |-> TRUE, url |-> FEEDS[idx].url, parsed |-> parsed])
       /\ IF MapThrows(parsed)
          THEN /\ response' = Catch(TypeError)
               /\ pc' = "done"
               /\ UNCHANGED <<idx, results>>
          ELSE /\ results' = ObjSet(results, FEEDS[idx].name,
                                    MapItems(parsed, FEEDS[idx]))
               /\ idx' = idx + 1
               /\ pc' = "loop"
               /\ UNCHANGED response
  /\ inflight' = inflight \ {idx}
  /\ UNCHANGED <<world, log, peer, clientVars>>

FetchResolve == FetchResolveFrom(UpstreamFeeds)

\* the awaited promise rejects with a value of T: control passes to the catch clause
FetchRejectFrom(T) ==
  /\ pc = "await"
  /\ \E e \in T :
       /\ response' = Catch(e)
       /\ upstream' = Append(upstream,
                             [ok |-> FALSE, url |-> FEEDS[idx].url, thrown |-> e])
  /\ pc' = "done"
  /\ inflight' = inflight \ {idx}
  /\ UNCHANGED <<idx, results, world, log, peer, clientVars>>

FetchReject == FetchRejectFrom(ThrownValues)

\* return Response.json({ feeds: results })
Return ==
  /\ pc = "loop"
  /\ idx > Len(FEEDS)
  /\ response' = ResponseJson([feeds |-> JsonFeeds(results)], 200)
  /\ pc' = "done"
  /\ UNCHANGED <<idx, results, upstream, inflight, world, log, peer, clientVars>>

Next ==
  \/ Invoke
  \/ StartFetch
  \/ FetchResolve
  \/ FetchReject
  \/ Return

Spec == Init /\ [][Next]_vars

---------------------------------------------------------------------------
(* The same handler in an environment where at most one source of the      *)
(* batch has entries, and that one feed ranges over EntryFeeds.            *)

NoArticleYet == \A i \in 1..Len(results) : results[i].v = <<>>

FetchEntry ==
  FetchResolveFrom(IF NoArticleYet THEN EntryFeeds \cup {EmptyFeed} ELSE {EmptyFeed})

NextEntry ==
  \/ Invoke
  \/ StartFetch
  \/ FetchEntry
  \/ Return

SpecEntry == Init /\ [][NextEntry]_vars

---------------------------------------------------------------------------

(* GET, invoked again and again. Each invocation starts when the one       *)
(* before has returned; what every source answers during an invocation is  *)
(* fixed as it starts, so that two invocations can meet the same answers.   *)

Gives(parsed) == [ok |-> TRUE, parsed |-> parsed]

Throws(e) == [ok |-> FALSE, thrown |-> e]

Quiet == [i \in 1..Len(FEEDS) |-> Gives(EmptyFeed)]

Mixed ==
  [i \in 1..Len(FEEDS) |->
     Gives(CASE i % 3 = 1 -> ShortFeed [] i % 3 = 2 -> LongFeed [] OTHER -> EmptyFeed)]

Swapped ==
  [i \in 1..Len(FEEDS) |->
     Gives(CASE i % 3 = 1 -> LongFeed [] i % 3 = 2 -> ShortFeed [] OTHER -> EmptyFeed)]

FailAt(w, n, e) == [w EXCEPT ![n] = Throws(e)]

\* the answers of the sources: all well, or one source failing
Worlds ==
  { Quiet, Mixed, Swapped,
    FailAt(Mixed, 4, ErrorObject(<<"E">>)),
    FailAt(Mixed, 1, Str(<<"b", "o", "o", "m">>)),
    FailAt(Quiet, Len(FEEDS), Null) }

\* GET is called: for the first time, or after the invocation before has ended
InvokeWorld ==
  /\ pc \in {"idle", "done"}
  /\ Len(log) + (IF pc = "done" THEN 1 ELSE 0) < MaxCalls
  /\ log' = IF pc = "done"
            THEN Append(log, [world |-> world, response |-> response])
            ELSE log
  /\ \E w \in Worlds : world' = w
  /\ pc' = "loop"
  /\ idx' = LoopStart
  /\ results' = <<>>
  /\ upstream' = <<>>
  /\ response' = NoResponse
  /\ UNCHANGED <<inflight, peer, clientVars>>

\* the awaited promise settles as the source answers in this invocation
FetchWorld ==
  \/ /\ pc = "await"
     /\ world[idx].ok
     /\ FetchResolveFrom({world[idx].parsed})
  \/ /\ pc = "await"
     /\ ~world[idx].ok
     /\ FetchRejectFrom({world[idx].thrown})

NextCalls ==
  \/ InvokeWorld
  \/ StartFetch
  \/ FetchWorld
  \/ Return

SpecCalls == Init /\ [][NextCalls]_vars

---------------------------------------------------------------------------

(* GET, one invocation, over entries that hold any part of their fields.   *)

\* the properties the map callback reads of an entry
FieldNames == DOMAIN BareItem

\* an entry with every field
FullItem ==
  [title |-> Str(<<"t">>), link |-> Str(<<"/", "l">>), pubDate |-> Str(<<"d", "1">>),
   creator |-> Str(<<"K">>),
   contentEncoded |-> Str(<<"<", "b", ">", "x", "<", "/", "b", ">">> \o ImgTag("\"", TextA)),
   contentSnippet |-> Str(Plain \o Plain), content_encoded |-> Str(<<"e">>),
   description |-> Str(<<"d">>), categories |-> Arr(<<Str(Tech), Str(World)>>)]

\* the entry that holds the fields of S and lacks the others
ItemWith(S) == [f \in FieldNames |-> IF f \in S THEN FullItem[f] ELSE Undefined]

\* every subset of the entry's fields, each field taken apart from the others, in
\* a feed with or without channel title, image and description; every subset of
\* those three around a bare and a full entry
SubsetFeeds ==
  {FeedOfItem(ItemWith(S), Undefined, Undefined, Undefined) : S \in SUBSET FieldNames}
  \cup {FeedOfItem(ItemWith(S), Str(<<"T">>), ImageObject(Str(TextC)),
                   Str(ImgTag("'", TextD))) : S \in SUBSET FieldNames}
  \cup {FeedOfItem(i, m[1], m[2], m[3]) :
          i \in {BareItem, FullItem},
          m \in {Undefined, Str(<<"T">>)} \X {Undefined, ImageObject(Str(TextC))}
                \X {Undefined, Str(ImgTag("'", TextD))}}

\* title, link and pubDate: absent, null, empty, or a text with blanks around it
VerbatimValues ==
  { Undefined, Null, Str(<<>>), Str(<<" ", "M", "o", "n", ",", " ", "0", "1", " ">>) }

VerbatimFeeds ==
  {FeedOfItem([BareItem EXCEPT !.title = f[1], !.link = f[2], !.pubDate = f[3]],
              Undefined, Undefined, Undefined) :
     f \in VerbatimValues \X VerbatimValues \X VerbatimValues}

\* name=value with the value between two q, q a quote or nothing
Attr(name, q, value) == name \o <<"=">> \o q \o value \o q

DQuote == <<"\"">>

SQuote == <<"'">>

\* what stands at an attribute's place in an img tag: nothing, a src quoted either
\* way, in capitals, unquoted or empty, another attribute, one whose name ends in src
Attrs ==
  { <<>>,
    Attr(<<"s", "r", "c">>, DQuote, <<"a">>),
    Attr(<<"s", "r", "c">>, SQuote, <<"b">>),
    Attr(<<"S", "R", "C">>, DQuote, <<"u">>),
    Attr(<<"s", "r", "c">>, <<>>, <<"n">>),
    Attr(<<"s", "r", "c">>, DQuote, <<>>),
    Attr(<<"a", "l", "t">>, DQuote, <<"x">>),
    Attr(<<"d", "a", "t", "a", "-", "s", "r", "c">>, DQuote, <<"z">>) }

\* an img tag with two attribute places
Tag2(x, y) == <<"<", "i", "m", "g", " ">> \o x \o <<" ">> \o y \o <<">">>

\* markup the pattern was not written for: tags left open, blanks doubled or
\* missing, '>' or a quote inside a value, src outside an img tag
OddStrings ==
  { <<"<", "i", "m", "g", " ", "s", "r", "c", "=", "\"", "A">>,
    <<"<", "i", "m", "g", " ", " ", "s", "r", "c", "=", "\"", "A", "\"">>,
    <<"<", "i", "m", "g", "s", "r", "c", "=", "\"", "A", "\"", ">">>,
    <<"<", "i", "m", "g", ">">>,
    <<"<", "b", ">", "h", "i", "<", "/", "b", ">">>,
    <<"s", "r", "c", "=", "\"", "A", "\"">>,
    <<"<", "i", "m", "g", " ", "a", "l", "t", "=", "\"", ">", "\"", " ", "s", "r", "c", "=", "\"", "A", "\"", ">">>,
    <<"<", "i", "m", "g", " ", "s", "r", "c", "=", "\"", "a", ">", "b", "\"", ">">>,
    <<"<", "i", "m", "g", " ", "s", "r", "c", "=", "\"", "A", "'", ">">>,
    <<"<", "i", "m", "g", " ", "s", "r", "c", "=", "\"", "A", "\"", "s", "r", "c", "=", "'", "B", "'">>,
    <<"<", "i", "m", "g", " ", "a", "l", "t", "=", "\"", "1", "\"", " ", "<", "i", "m", "g", " ", "s", "r", "c", "=", "\"", "B", "\"", ">">>,
    <<"<", "i", "m", "g", " ", "a", ">", " ", "<", "i", "m", "g", " ", "s", "r", "c", "=", "\"", "B", "\"", ">">>,
    <<"x", "<", "I", "M", "G", " ", "S", "R", "C", "=", "\"", "A", "\"", ">", "y">>,
    <<"<", "I", "m", "g", " ", "s", "R", "c", "=", "'", "q", "'", ">">>,
    <<"<", "i", "m", "g", " ", ">", "<", "a", " ", "s", "r", "c", "=", "\"", "u", "\"", ">">>,
    <<"<", "i", "m", "g", " ", "'", "s", "r", "c", "=", "\"", "A", "\"">>,
    <<"<", "i", "m", "g", " ", "s", "r", "c", "=", "\"", "\"", "s", "r", "c", "=", "\"", "Z", "\"", ">">>,
    <<"<", "a", " ", "s", "r", "c", "=", "\"", "u", "\"", ">", "<", "i", "m", "g", " ", "s", "r", "c", "=", "'", "v", "'", "/", ">">> }

\* one tag with any two attributes, two tags with any one attribute each, the odd
ImgStrings ==
  {Tag2(x, y) : x, y \in Attrs}
  \cup {Tag2(x, <<>>) \o Tag2(y, <<>>) : x, y \in Attrs}
  \cup OddStrings

\* the strings as the only text of an entry, in a feed without channel image
ImgFeeds ==
  {FeedOfItem([BareItem EXCEPT !.contentEncoded = Str(s)],
              Undefined, Undefined, Undefined) : s \in ImgStrings}

PartFeeds == SubsetFeeds \cup VerbatimFeeds \cup ImgFeeds

FetchPart ==
  FetchResolveFrom(IF NoArticleYet THEN PartFeeds \cup {EmptyFeed} ELSE {EmptyFeed})

NextPart ==
  \/ Invoke
  \/ StartFetch
  \/ FetchPart
  \/ Return

SpecPart == Init /\ [][NextPart]_vars

---------------------------------------------------------------------------

(* Home: the page requests /api/trending when it has mounted, takes the    *)
(* JSON of the answer into its state, and lets the reader pick a source    *)
(* and open or close the documentation sidebar. The state setters called   *)
(* in one callback take effect together, in one render.                    *)

\* GET as a function of what the sources answer: the response of the loop that
\* stops at the first source that fails
Aggregate(w) ==
  LET failing == {i \in 1..Len(FEEDS) : ~w[i].ok}
  IN IF failing # {} THEN Catch(w[SetMin(failing)].thrown)
     ELSE ResponseJson(
            [feeds |-> JsonFeeds([i \in 1..Len(FEEDS) |->
                                   [k |-> FEEDS[i].name,
                                    v |-> MapItems(w[i].parsed, FEEDS[i])]])],
            200)

\* what fetch fulfils with for an outcome of GET: the JSON GET returned, or the
\* framework's own 500 page when GET threw
Served(r) ==
  IF r.t = "response"
  THEN [t |-> "http", status |-> r.status, json |-> TRUE, data |-> r.body]
  ELSE [t |-> "http", status |-> 500, json |-> FALSE]

\* every source answering the same feed
AllGive(parsed) == [i \in 1..Len(FEEDS) |-> Gives(parsed)]

\* the answers of the sources behind the requests of the page
ClientWorlds ==
  Worlds \cup {AllGive(ShortFeed), AllGive(LongFeed),
               [Quiet EXCEPT ![Len(FEEDS)] = Gives(LongFeed)]}

\* the answers fetch can fulfil with
Replies == {Served(Aggregate(w)) : w \in ClientWorlds}

\* fetch rejected: no connection
NetworkError == [t |-> "failed"]

\* data.feeds || {}
FeedsOrEmpty(data) == IF "feeds" \in DOMAIN data THEN data.feeds ELSE <<>>

\* srcs[0] || FEEDS[0].name: a configured name as the default
FirstOrDefault(srcs) == IF Len(srcs) > 0 THEN srcs[1] ELSE FEEDS[1].name

\* srcs[0] || ""
FirstOrEmpty(srcs) == IF Len(srcs) > 0 THEN srcs[1] ELSE <<>>

\* loading ? <LoadingCards /> : (feeds[selected] || []).map(...): the articles shown
Cards ==
  IF loading THEN <<>>
  ELSE IF HasKey(feeds, selected) THEN ObjGet(feeds, selected) ELSE <<>>

\* useEffect(() => { fetch("/api/trending")... }, []): runs once, after the mount
Effect ==
  /\ cpc = "mounting"
  /\ cpc' = "fetching"
  /\ requests' = requests + 1
  /\ UNCHANGED <<feeds, sources, selected, loading, sidebarOpen, reply>>
  /\ UNCHANGED <<serverVars, log, peer>>

\* loading is dropped as soon as the answer arrives, before its body is read
FetchFulfilEager ==
  /\ cpc = "fetching"
  /\ \E r \in Replies : reply' = r
  /\ cpc' = "parsing"
  /\ loading' = FALSE
  /\ UNCHANGED <<feeds, sources, selected, sidebarOpen, requests>>
  /\ UNCHANGED <<serverVars, log, peer>>

\* fetch fulfils, whatever the status: res.json() is called
FetchFulfil ==
  /\ cpc = "fetching"
  /\ \E r \in Replies : reply' = r
  /\ cpc' = "parsing"
  /\ UNCHANGED <<feeds, sources, selected, loading, sidebarOpen, requests>>
  /\ UNCHANGED <<serverVars, log, peer>>

\* fetch rejects: nothing catches it
FetchFail ==
  /\ cpc = "fetching"
  /\ reply' = NetworkError
  /\ cpc' = "rejected"
  /\ UNCHANGED <<feeds, sources, selected, loading, sidebarOpen, requests>>
  /\ UNCHANGED <<serverVars, log, peer>>

\* the callback returns early when data has no feeds
JsonFulfilGuarded ==
  /\ cpc = "parsing"
  /\ reply.json
  /\ IF "feeds" \in DOMAIN reply.data
     THEN /\ feeds' = FeedsOrEmpty(reply.data)
          /\ sources' = ObjKeys(FeedsOrEmpty(reply.data))
          /\ selected' = FirstOrEmpty(ObjKeys(FeedsOrEmpty(reply.data)))
          /\ loading' = FALSE
     ELSE UNCHANGED <<feeds, sources, selected, loading>>
  /\ cpc' = "settled"
  /\ UNCHANGED <<sidebarOpen, requests, reply>>
  /\ UNCHANGED <<serverVars, log, peer>>

\* res.json() fulfils with data: the second then callback runs
JsonFulfil ==
  /\ cpc = "parsing"
  /\ reply.json
  /\ feeds' = FeedsOrEmpty(reply.data)
  /\ sources' = ObjKeys(FeedsOrEmpty(reply.data))
  /\ selected' = FirstOrEmpty(ObjKeys(FeedsOrEmpty(reply.data)))
  /\ loading' = FALSE
  /\ cpc' = "settled"
  /\ UNCHANGED <<sidebarOpen, requests, reply>>
  /\ UNCHANGED <<serverVars, log, peer>>

\* a catch at the end of the chain ends the loading
JsonRejectCaught ==
  /\ cpc = "parsing"
  /\ ~reply.json
  /\ cpc' = "rejected"
  /\ loading' = FALSE
  /\ UNCHANGED <<feeds, sources, selected, sidebarOpen, requests, reply>>
  /\ UNCHANGED <<serverVars, log, peer>>

\* res.json() rejects, the body is no JSON: nothing catches it
JsonReject ==
  /\ cpc = "parsing"
  /\ ~reply.json
  /\ cpc' = "rejected"
  /\ UNCHANGED <<feeds, sources, selected, loading, sidebarOpen, requests, reply>>
  /\ UNCHANGED <<serverVars, log, peer>>

\* the effect depends on selected: picking a source runs it again
SelectTabRefetch ==
  /\ \E i \in 1..Len(sources) : selected' = sources[i]
  /\ cpc' = "fetching"
  /\ requests' = requests + 1
  /\ UNCHANGED <<feeds, sources, loading, sidebarOpen, reply>>
  /\ UNCHANGED <<serverVars, log, peer>>

\* onClick={() => setSelected(src)} of a tab, one tab per element of sources
SelectTab ==
  /\ \E i \in 1..Len(sources) : selected' = sources[i]
  /\ UNCHANGED <<cpc, feeds, sources, loading, sidebarOpen, requests, reply>>
  /\ UNCHANGED <<serverVars, log, peer>>

\* onClick={() => setSidebarOpen(true)}
OpenSidebar ==
  /\ ~sidebarOpen
  /\ sidebarOpen' = TRUE
  /\ UNCHANGED <<cpc, feeds, sources, selected, loading, requests, reply>>
  /\ UNCHANGED <<serverVars, log, peer>>

\* onClick={() => setOpen(false)} of the sidebar, rendered while sidebarOpen
CloseSidebar ==
  /\ sidebarOpen
  /\ sidebarOpen' = FALSE
  /\ UNCHANGED <<cpc, feeds, sources, selected, loading, requests, reply>>
  /\ UNCHANGED <<serverVars, log, peer>>

NextClient ==
  \/ Effect
  \/ FetchFulfil
  \/ FetchFail
  \/ JsonFulfil
  \/ JsonReject
  \/ SelectTab
  \/ OpenSidebar
  \/ CloseSidebar

SpecClient == Init /\ [][NextClient]_vars

---------------------------------------------------------------------------
(* GET invoked repeatedly, when every fetch that was started settles: the  *)
(* synchronous steps of the handler are taken once they can be, and the    *)
(* invocation does not stay at its await for ever.  FetchWorld is enabled  *)
(* exactly when pc = "await" and always leaves the await, so the last      *)
(* conjunct says what WF_vars(FetchWorld) says, in a form that needs no    *)
(* evaluation of the enabledness of the whole loop body.                   *)

SpecLive ==
  /\ Init
  /\ [][NextCalls]_vars
  /\ WF_vars(StartFetch)
  /\ WF_vars(Return)
  /\ []<>(pc # "await")

---------------------------------------------------------------------------
(* Two invocations of GET in one process.  JavaScript runs one of them at  *)
(* a time and changes over only where the running one is suspended at its  *)
(* await (or has ended); the variables of the suspended one are kept in    *)
(* peer, those of the running one in the server variables.                 *)

\* the local state of the running invocation
Locals ==
  [pc |-> pc, idx |-> idx, results |-> results, upstream |-> upstream,
   response |-> response, inflight |-> inflight, world |-> world]

\* the first request arrives
Arrive ==
  /\ pc = "idle"
  /\ InvokeWorld

\* a second request arrives while the first one waits for a source: GET is
\* entered again, with a results object and a loop of its own
Overlap ==
  /\ pc = "await"
  /\ peer = NoPeer
  /\ peer' = Locals
  /\ \E w \in Worlds : world' = w
  /\ pc' = "loop"
  /\ idx' = LoopStart
  /\ results' = <<>>
  /\ upstream' = <<>>
  /\ response' = NoResponse
  /\ inflight' = {}
  /\ UNCHANGED <<log, clientVars>>

SwitchSharedResults ==
  /\ pc \in {"await", "done"}
  /\ peer # NoPeer
  /\ peer.pc = "await"
  /\ peer' = Locals
  /\ pc' = peer.pc
  /\ idx' = peer.idx
  /\ upstream' = peer.upstream
  /\ response' = peer.response
  /\ inflight' = peer.inflight
  /\ world' = peer.world
  /\ UNCHANGED <<results, log, clientVars>>

\* the running invocation is suspended or has ended, and the event loop goes on
\* with the other one, which finds its own variables as it left them
Switch ==
  /\ pc \in {"await", "done"}
  /\ peer # NoPeer
  /\ peer.pc = "await"
  /\ peer' = Locals
  /\ pc' = peer.pc
  /\ idx' = peer.idx
  /\ results' = peer.results
  /\ upstream' = peer.upstream
  /\ response' = peer.response
  /\ inflight' = peer.inflight
  /\ world' = peer.world
  /\ UNCHANGED <<log, clientVars>>

NextPair ==
  \/ Arrive
  \/ Overlap
  \/ Switch
  \/ StartFetch
  \/ FetchWorld
  \/ Return

SpecPair == Init /\ [][NextPair]_vars

---------------------------------------------------------------------------
(* What the claims speak of. *)

\* GET has returned and no fetch of the invocation threw
Succeeded == pc = "done" /\ \A i \in 1..Len(upstream) : upstream[i].ok

\* GET has ended and a fetch of the invocation threw
Failed == pc = "done" /\ \E i \in 1..Len(upstream) : ~upstream[i].ok

IsResponse(status) == response.t = "response" /\ response.status = status

\* the position in FEEDS of the source named k
FeedIndex(k) == CHOOSE n \in 1..Len(FEEDS) : FEEDS[n].name = k

\* the feed parser.parseURL gave for the source named k
ParsedOf(k) == upstream[FeedIndex(k)].parsed

\* the places <<i, j>> of the articles held by the results object
ArticleSlots ==
  {s \in (1..Len(results)) \X (1..MaxArticles) : s[2] <= Len(results[s[1]].v)}

ArticleAt(s) == results[s[1]].v[s[2]]

\* the upstream entry at the same position of the same source
EntryAt(s) == ParsedOf(results[s[1]].k).items[s[2]]

\* the text of the snippet of the article at s, and of the description it is cut from
SnippetAt(s) == ArticleAt(s).contentSnippet.s

DescAt(s) == ResolveDesc(EntryAt(s)).s

\* a '<' that a '>' follows, however far
HasTagMarker(x) ==
  \E p \in 1..Len(x) : x[p] = "<" /\ \E q \in (p + 1)..Len(x) : x[q] = ">"

\* the channel title and the source name of the article at s
TitleAt(s) == ParsedOf(results[s[1]].k).title

NameAt(s) == Str(results[s[1]].k)

\* a string with at least one character
NonEmpty(v) == v.t = "string" /\ Len(v.s) > 0

---------------------------------------------------------------------------
(* C1: when the fetch of any source throws, whatever its position, GET     *)
(* gives one error outcome: a 500 response that carries an error message   *)
(* and no feeds mapping.                                                   *)

C1_SingleErrorOutcome ==
  Failed =>
    /\ IsResponse(500)
    /\ "feeds" \notin DOMAIN response.body
    /\ "error" \in DOMAIN response.body
    /\ response.body.error.t = "string"

\* the part of C1 that the code keeps: a failed invocation never returns a mapping
C1_NoPartialMapping ==
  Failed => ~(response.t = "response" /\ "feeds" \in DOMAIN response.body)

---------------------------------------------------------------------------
(* C2: whatever value the fetch throws, GET does not reject: it returns    *)
(* status 500 with the body { error: m }, m a string.                      *)

C2_ErrorBodyForAnyThrown ==
  \A i \in 1..Len(upstream) :
    ~upstream[i].ok =>
      /\ response.t # "rejected"
      /\ response.status = 500
      /\ DOMAIN response.body = {"error"}
      /\ response.body.error.t = "string"

---------------------------------------------------------------------------
(* C3: when no fetch fails GET returns 200 with { feeds: M }, and the keys *)
(* of M are exactly the configured source names; a source whose feed has   *)
(* no entry keeps its key, with an empty list.                             *)

C3_KeySetIsFeedNames ==
  Succeeded =>
    /\ IsResponse(200)
    /\ DOMAIN response.body = {"feeds"}
    /\ KeySet(response.body.feeds) = FeedNames
    /\ Len(response.body.feeds) = Len(FEEDS)
    /\ \A i \in 1..Len(FEEDS) :
         upstream[i].parsed.items = <<>> =>
           ObjGet(response.body.feeds, FEEDS[i].name) = <<>>

C3_Witness ==
  /\ Succeeded
  /\ IsResponse(200)
  /\ KeySet(response.body.feeds) = FeedNames
  /\ \E i \in 1..Len(FEEDS) : upstream[i].parsed.items = <<>>
  /\ \E i \in 1..Len(FEEDS) : upstream[i].parsed.items # <<>>

---------------------------------------------------------------------------
(* C4: in a successful aggregation every source holds min(10, n) articles, *)
(* n the number of entries of its upstream feed.                           *)

C4_CountIsMin10 ==
  (Succeeded /\ IsResponse(200)) =>
    \A i \in 1..Len(FEEDS) :
      /\ HasKey(response.body.feeds, FEEDS[i].name)
      /\ LET n == Len(upstream[i].parsed.items)
             got == Len(ObjGet(response.body.feeds, FEEDS[i].name))
         IN got = IF n <= 10 THEN n ELSE 10

C4_Witness ==
  /\ Succeeded
  /\ IsResponse(200)
  /\ \E i \in 1..Len(FEEDS) :
       /\ Len(upstream[i].parsed.items) > 10
       /\ Len(ObjGet(response.body.feeds, FEEDS[i].name)) = 10

---------------------------------------------------------------------------
(* C5: the j-th article of a source is built from the j-th entry of that   *)
(* source's feed, for every j up to min(10, n): the prefix of the feed in  *)
(* upstream order, nothing sorted, filtered or skipped.                    *)

C5_PrefixInUpstreamOrder ==
  (Succeeded /\ IsResponse(200)) =>
    \A i \in 1..Len(FEEDS) :
      /\ HasKey(response.body.feeds, FEEDS[i].name)
      /\ LET parsed == upstream[i].parsed
             list == ObjGet(response.body.feeds, FEEDS[i].name)
         IN \A j \in 1..Len(list) :
              /\ j <= Len(parsed.items)
              /\ list[j].title = Nullish(parsed.items[j].title, Str(<<>>))
              /\ list[j].link = Nullish(parsed.items[j].link, Str(<<>>))
              /\ list[j] = JsonObject(BuildArticle(parsed.items[j], parsed, FEEDS[i],
                                                   ChannelImage(parsed)))

\* a feed of more than ten entries, each told apart by its title: ten articles
\* come back, the first from the first entry and the tenth from the tenth
C5_Witness ==
  /\ Succeeded
  /\ IsResponse(200)
  /\ \E i \in 1..Len(FEEDS) :
       LET list == ObjGet(response.body.feeds, FEEDS[i].name)
       IN /\ Len(upstream[i].parsed.items) > 10
          /\ Len(list) = 10
          /\ list[1].title = Str(NumStr(1))
          /\ list[10].title = Str(NumStr(10))

---------------------------------------------------------------------------
(* C6: no contentSnippet holds a tag marker, a '<' followed later by a '>'. *)
(* As stated it fails: the regular expression wants at least one character *)
(* after '<', so the empty pair "<>" is no match and stays in the snippet. *)

C6_NoTagMarker == \A s \in ArticleSlots : ~HasTagMarker(SnippetAt(s))

\* C6 as amended: the only '<' of a snippet that a '>' follows is the '<' of
\* an empty pair "<>"; no marker with anything between the brackets is left
C6_OnlyEmptyPairLeft ==
  \A s \in ArticleSlots :
    LET x == SnippetAt(s)
    IN \A p \in 1..Len(x) :
         (x[p] = "<" /\ \E q \in (p + 1)..Len(x) : x[q] = ">") => x[p + 1] = ">"

\* a description with markup whose snippet is the text alone
C6_Witness ==
  \E s \in ArticleSlots :
    /\ DescAt(s) = <<"<", "a", ">", "a">>
    /\ SnippetAt(s) = <<"a", ".", ".", ".">>

---------------------------------------------------------------------------
(* C7: contentSnippet is the first 225 characters of the stripped          *)
(* description (stripped first, cut second) followed by "...", always: it  *)
(* ends with "...", is min(225, length of the stripped text) + 3 long, at  *)
(* most 228, and an empty description gives exactly "...".                 *)

C7_PrefixPlusEllipsis ==
  \A s \in ArticleSlots :
    LET stripped == StripTags(DescAt(s))
        x == SnippetAt(s)
        n == IF Len(stripped) <= 225 THEN Len(stripped) ELSE 225
    IN /\ Len(x) = n + 3
       /\ Len(x) <= 228
       /\ \A k \in 1..n : x[k] = stripped[k]
       /\ \A k \in (n + 1)..(n + 3) : x[k] = "."
       /\ (DescAt(s) = <<>> => x = <<".", ".", ".">>)

\* a description with markup before the cut and more than 225 characters of text
C7_Witness ==
  \E s \in ArticleSlots :
    /\ Len(DescAt(s)) > 225
    /\ DescAt(s)[1] = "<"
    /\ Len(StripTags(DescAt(s))) > 225
    /\ Len(SnippetAt(s)) = 228
    /\ SnippetAt(s)[225] = "a"
    /\ SnippetAt(s)[226] = "."

---------------------------------------------------------------------------
(* C8: categories is the upstream list unchanged when upstream is a list,  *)
(* the list [s] when upstream is the string s, and the empty list when     *)
(* upstream is absent or of another type.                                  *)

C8_CategoriesNormalised ==
  \A s \in ArticleSlots :
    LET c == EntryAt(s).categories
        out == ArticleAt(s).categories
    IN /\ out.t = "array"
       /\ c.t = "array" => out.a = c.a
       /\ c.t = "string" => out.a = <<c>>
       /\ c.t \notin {"array", "string"} => out.a = <<>>

C8_Witness ==
  \E s \in ArticleSlots :
    /\ EntryAt(s).categories = Str(Tech)
    /\ ArticleAt(s).categories = Arr(<<Str(Tech)>>)

---------------------------------------------------------------------------
(* C9: channel is the creator when a creator field is present, else the    *)
(* feed title when the feed has one, else the configured source name.      *)
(* As stated it fails: || passes over a creator or a title that is present *)
(* and the empty string.                                                   *)

C9_PresentCreatorWins ==
  \A s \in ArticleSlots :
    LET creator == EntryAt(s).creator
        channel == ArticleAt(s).channel
    IN /\ creator # Undefined => channel = creator
       /\ (creator = Undefined /\ TitleAt(s) # Undefined) => channel = TitleAt(s)
       /\ (creator = Undefined /\ TitleAt(s) = Undefined) => channel = NameAt(s)

\* C9 as amended: present means present and not the empty string
C9_NonEmptyCreatorWins ==
  \A s \in ArticleSlots :
    LET creator == EntryAt(s).creator
        channel == ArticleAt(s).channel
    IN /\ NonEmpty(creator) => channel = creator
       /\ (~NonEmpty(creator) /\ NonEmpty(TitleAt(s))) => channel = TitleAt(s)
       /\ (~NonEmpty(creator) /\ ~NonEmpty(TitleAt(s))) => channel = NameAt(s)

C9_Witness ==
  \E s \in ArticleSlots :
    /\ EntryAt(s).creator = Str(<<"K">>)
    /\ TitleAt(s) = Str(<<"T">>)
    /\ ArticleAt(s).channel = Str(<<"K">>)

---------------------------------------------------------------------------
(* C10: image is the src of the description's img; without one, the src of *)
(* the summary's img; without either, the channel fallback image; without  *)
(* all three it is undefined. The first extraction that succeeds wins.     *)

C10_ImageFallbackOrder ==
  \A s \in ArticleSlots :
    LET e == EntryAt(s)
        parsed == ParsedOf(results[s[1]].k)
        a == extractImage(Str(DescAt(s)))
        b == extractImage(e.contentSnippet)
        c == ChannelImage(parsed)
        image == ArticleAt(s).image
    IN /\ a # Undefined => image = a
       /\ (a = Undefined /\ b # Undefined) => image = b
       /\ (a = Undefined /\ b = Undefined) => image = c
       /\ e.contentEncoded = Str(ImgTag("\"", TextA)) => image = Str(TextA)
       /\ (e.contentEncoded = Str(Plain) /\ e.contentSnippet = Str(ImgTag("'", TextB)))
            => image = Str(TextB)
       /\ ( /\ e.contentEncoded = Str(Plain)
            /\ e.contentSnippet = Str(Plain \o Plain)
            /\ parsed.image = ImageObject(Str(TextC)) )
            => image = Str(TextC)
       /\ ( /\ e.contentEncoded = Str(Plain)
            /\ e.contentSnippet = Str(Plain \o Plain)
            /\ parsed.image = Undefined
            /\ parsed.description = Undefined )
            => image = Undefined

\* all three sources of an image are there, and the description's wins
C10_Witness ==
  \E s \in ArticleSlots :
    /\ EntryAt(s).contentEncoded = Str(ImgTag("\"", TextA))
    /\ EntryAt(s).contentSnippet = Str(ImgTag("'", TextB))
    /\ ParsedOf(results[s[1]].k).image = ImageObject(Str(TextC))
    /\ ArticleAt(s).image = Str(TextA)

---------------------------------------------------------------------------
(* C11: in a successful response the keys of feeds, iterated in the order  *)
(* the object holds them, are the source names in the order of FEEDS.      *)

\* the configured names, in configured order
FeedNameSeq == [i \in 1..Len(FEEDS) |-> FEEDS[i].name]

C11_KeysInConfiguredOrder ==
  (Succeeded /\ IsResponse(200)) =>
    ObjKeys(response.body.feeds) = FeedNameSeq

C11_Witness ==
  /\ Succeeded
  /\ IsResponse(200)
  /\ Len(response.body.feeds) = Len(FEEDS)
  /\ ObjKeys(response.body.feeds)[1] = FEEDS[1].name
  /\ ObjKeys(response.body.feeds)[Len(FEEDS)] = FEEDS[Len(FEEDS)].name
  /\ \E i \in 1..Len(FEEDS) : upstream[i].parsed.items # <<>>

---------------------------------------------------------------------------
(* C12: GET keeps nothing from one invocation to the next: two invocations *)
(* that meet the same answers of every source return the same response,    *)
(* whatever invocations, successful or failed, ran before or between them. *)

\* the invocations that have ended, the present one included
Ended ==
  log \o (IF pc = "done" THEN <<[world |-> world, response |-> response]>> ELSE <<>>)

C12_SameAnswersSameResponse ==
  \A a, b \in 1..Len(Ended) :
    Ended[a].world = Ended[b].world => Ended[a].response = Ended[b].response

C12_Witness ==
  /\ Len(Ended) >= 3
  /\ Ended[1].world = Ended[3].world
  /\ Ended[2].world # Ended[1].world
  /\ Ended[2].response.t = "response"
  /\ Ended[2].response.status = 500
  /\ Ended[3].response.t = "response"
  /\ Ended[3].response.status = 200
  /\ \E i \in 1..Len(FEEDS) : Ended[3].response.body.feeds[i].v # <<>>

---------------------------------------------------------------------------
(* C13: nothing is cached: every successful invocation has called          *)
(* parser.parseURL once for each configured source, in FEEDS order, also   *)
(* when an earlier invocation fetched the same sources.                    *)

\* the URLs parser.parseURL was called with during this invocation
FetchedUrls == [i \in 1..Len(upstream) |-> upstream[i].url]

C13_OneFetchPerSource ==
  (pc = "done" /\ IsResponse(200)) =>
    FetchedUrls = [i \in 1..Len(FEEDS) |-> FEEDS[i].url]

C13_Witness ==
  /\ pc = "done"
  /\ IsResponse(200)
  /\ Len(log) >= 2
  /\ log[1].response.t = "response"
  /\ log[1].response.status = 200
  /\ log[2].response.t = "response"
  /\ log[2].response.status = 500
  /\ Len(FetchedUrls) = Len(FEEDS)

---------------------------------------------------------------------------
(* C14: within one invocation at most one fetch is pending in any state,   *)
(* and while the fetch of the source at position i is pending the fetches  *)
(* of all sources before it have completed, in order, and their article    *)
(* lists are stored; no later source has been fetched.                     *)

C14_OneFetchAtATime ==
  /\ Cardinality(inflight) <= 1
  /\ \A i \in inflight :
       /\ i = idx
       /\ Len(upstream) = i - 1
       /\ \A j \in 1..(i - 1) : upstream[j].ok /\ upstream[j].url = FEEDS[j].url
       /\ ObjKeys(results) = [j \in 1..(i - 1) |-> FEEDS[j].name]

C14_Witness ==
  /\ inflight = {Len(FEEDS)}
  /\ Len(results) = Len(FEEDS) - 1
  /\ \E j \in 1..Len(results) : results[j].v # <<>>

---------------------------------------------------------------------------
(* C15: every article stored under a source is built from the entry at its *)
(* position in that source's own feed, with that feed's channel title,     *)
(* that feed's channel fallback image and that source's configured name:   *)
(* nothing of it comes from the feed or the name of another source. Read   *)
(* on the mapping a successful invocation returns.                         *)

C15_BuiltFromOwnSource ==
  Succeeded =>
    \A s \in ArticleSlots :
      LET n == FeedIndex(results[s[1]].k)
          own == upstream[n].parsed
      IN /\ n = s[1]
         /\ ArticleAt(s) = BuildArticle(own.items[s[2]], own, FEEDS[n], ChannelImage(own))

\* two neighbouring sources with different feeds, each with an article that
\* leans on its feed's title, its source's name and its feed's image
C15_Witness ==
  /\ Succeeded
  /\ \E i \in 1..(Len(results) - 1) :
       /\ upstream[i].parsed = ShortFeed
       /\ upstream[i + 1].parsed = LongFeed
       /\ results[i].v[2].channel = ShortFeed.title
       /\ results[i].v[2].image = ShortFeed.image.url
       /\ results[i + 1].v[2].channel = Str(FEEDS[i + 1].name)
       /\ results[i + 1].v[2].image = Str(TextD)

---------------------------------------------------------------------------
(* C16: an entry that lacks any subset of its fields, in a feed that lacks *)
(* channel title, image and description or holds them, never makes GET     *)
(* answer 500: the entry yields an article whose title, link, pubDate,     *)
(* channel and contentSnippet are strings and whose categories is a list.  *)

StringFields == {"title", "link", "pubDate", "channel", "contentSnippet"}

C16_MissingFieldsNoError ==
  /\ pc = "done" => IsResponse(200)
  /\ \A i \in 1..Len(results) : Len(results[i].v) = Len(upstream[i].parsed.items)
  /\ \A s \in ArticleSlots :
       /\ \A f \in StringFields : ArticleAt(s)[f].t = "string"
       /\ ArticleAt(s).categories.t = "array"

\* the entry with no field at all, in a feed with no channel title, image or
\* description, has come out as an article
C16_Witness ==
  /\ Succeeded
  /\ IsResponse(200)
  /\ \E i \in 1..Len(FEEDS) :
       /\ upstream[i].parsed = FeedOfItem(BareItem, Undefined, Undefined, Undefined)
       /\ Len(response.body.feeds[i].v) = 1
       /\ response.body.feeds[i].v[1].title = Str(<<>>)
       /\ response.body.feeds[i].v[1].contentSnippet = Str(Ellipsis)

---------------------------------------------------------------------------
(* C17: the description an article's snippet is cut from is the entry's    *)
(* full-content field if it is present and not empty, else the summary if  *)
(* present and not empty, else the description field if present and not    *)
(* empty, else the empty string.                                           *)

\* the first of the three fields that is a non-empty string, or ""
ThreeStep(e) ==
  IF NonEmpty(e.contentEncoded) THEN e.contentEncoded
  ELSE IF NonEmpty(e.contentSnippet) THEN e.contentSnippet
  ELSE IF NonEmpty(e.description) THEN e.description
  ELSE Str(<<>>)

---------------------------------------------------------------------------
(* C18: title, link and pubDate of an article are the upstream entry's     *)
(* values, character for character, when the entry has them, and the empty *)
(* string when it has not.                                                 *)

VerbatimFields == {"title", "link", "pubDate"}

---------------------------------------------------------------------------
(* C19: the channel fallback image of a source is the explicit channel     *)
(* image URL of its feed when the feed has one; only without one it is the *)
(* src of an img tag of the channel description; with neither there is     *)
(* none. It is one value per source: every article of the source that has  *)
(* no image of its own carries it.                                         *)

\* neither the description nor the summary of the entry at s holds an image
NoOwnImage(s) ==
  /\ extractImage(Str(DescAt(s))) = Undefined
  /\ extractImage(EntryAt(s).contentSnippet) = Undefined

\* the feed has an explicit channel image URL
HasImageUrl(parsed) == parsed.image.t = "image" /\ NonEmpty(parsed.image.url)

C19_ChannelFallbackImage ==
  \A s \in ArticleSlots :
    LET parsed == ParsedOf(results[s[1]].k)
        image == ArticleAt(s).image
    IN NoOwnImage(s) =>
         /\ HasImageUrl(parsed) => image = parsed.image.url
         /\ ~HasImageUrl(parsed) => image = extractImage(parsed.description)
         /\ (~HasImageUrl(parsed) /\ parsed.description = Str(ImgTag("\"", TextD)))
              => image = Str(TextD)
         /\ (~HasImageUrl(parsed) /\ parsed.description \in {Undefined, Str(Plain)})
              => image = Undefined
         /\ \A t \in ArticleSlots :
              (t[1] = s[1] /\ NoOwnImage(t)) => ArticleAt(t).image = image

\* a feed with both an explicit image and an img tag in its description: two of
\* its articles carry the explicit image
C19_Witness ==
  \E s, t \in ArticleSlots :
    /\ s[1] = t[1]
    /\ s[2] # t[2]
    /\ NoOwnImage(s)
    /\ NoOwnImage(t)
    /\ ParsedOf(results[s[1]].k).image = ImageObject(Str(TextC))
    /\ ParsedOf(results[s[1]].k).description = Str(ImgTag("\"", TextD))
    /\ ArticleAt(s).image = Str(TextC)
    /\ ArticleAt(t).image = Str(TextC)

---------------------------------------------------------------------------
(* C20, as stated: extractImage gives undefined for an absent or empty     *)
(* input and for one without an img tag that has a quoted src attribute;   *)
(* otherwise the value of the src attribute of the first img tag that has  *)
(* one. Read on the image of an article whose entry has no summary and     *)
(* whose feed has no channel image, which is extractImage(desc).           *)

\* the article's image can only come from the description of its entry
OnlyDesc(s) ==
  /\ EntryAt(s).contentSnippet = Undefined
  /\ ParsedOf(results[s[1]].k).image = Undefined
  /\ ParsedOf(results[s[1]].k).description = Undefined

\* the quoted values of the attributes named src of the img tag opening at p: the
\* name follows a blank, and no '>' stands between the tag's opening and it
SrcAttrs(h, p) == {j \in SrcAfter(h, p) : h[j - 1] = " "}

QuotedAt(h, j) == SubSeq(h, j + 5, NextQuote(h, j + 5) - 1)

FirstImgSrc(h) ==
  LET tags == {p \in 1..Len(h) : LitAt(h, p, ImgOpen) /\ SrcAttrs(h, p) # {}}
  IN IF tags = {} THEN Undefined
     ELSE Str(QuotedAt(h, SetMin(SrcAttrs(h, SetMin(tags)))))

C20_FirstImgSrc ==
  \A s \in ArticleSlots :
    OnlyDesc(s) => ArticleAt(s).image = FirstImgSrc(DescAt(s))

(* C20, amended: extractImage gives undefined when no "<img " of the input *)
(* reaches, without passing a '>', a src= followed by a quoted non-empty   *)
(* text; otherwise it takes the leftmost "<img " that does and gives the   *)
(* quoted text after the last src= it reaches, whether or not those four   *)
(* characters begin an attribute name.                                     *)

\* inputs and what extractImage gives for them
ImgCases ==
  { <<Tag2(Attr(<<"s", "r", "c">>, DQuote, <<"a">>), <<>>), Str(<<"a">>)>>,
    <<Tag2(Attr(<<"a", "l", "t">>, DQuote, <<"x">>),
           Attr(<<"s", "r", "c">>, SQuote, <<"b">>)), Str(<<"b">>)>>,
    <<Tag2(Attr(<<"S", "R", "C">>, DQuote, <<"u">>), <<>>), Str(<<"u">>)>>,
    <<Tag2(Attr(<<"s", "r", "c">>, DQuote, <<"a">>), <<>>)
        \o Tag2(Attr(<<"s", "r", "c">>, SQuote, <<"b">>), <<>>), Str(<<"a">>)>>,
    <<Tag2(Attr(<<"a", "l", "t">>, DQuote, <<"x">>), <<>>)
        \o Tag2(Attr(<<"s", "r", "c">>, SQuote, <<"b">>), <<>>), Str(<<"b">>)>>,
    <<Tag2(Attr(<<"s", "r", "c">>, <<>>, <<"n">>), <<>>), Undefined>>,
    <<Tag2(Attr(<<"s", "r", "c">>, DQuote, <<>>), <<>>), Undefined>>,
    <<Tag2(Attr(<<"s", "r", "c">>, DQuote, <<"a">>),
           Attr(<<"s", "r", "c">>, SQuote, <<"b">>)), Str(<<"b">>)>>,
    <<Tag2(Attr(<<"s", "r", "c">>, DQuote, <<"a">>),
           Attr(<<"d", "a", "t", "a", "-", "s", "r", "c">>, DQuote, <<"z">>)),
      Str(<<"z">>)>>,
    <<Tag2(Attr(<<"d", "a", "t", "a", "-", "s", "r", "c">>, DQuote, <<"z">>), <<>>),
      Str(<<"z">>)>> }

C20_LastSrcOfFirstImg ==
  \A s \in ArticleSlots :
    OnlyDesc(s) =>
      LET h == DescAt(s)
          image == ArticleAt(s).image
          good == {p \in 1..Len(h) : LitAt(h, p, ImgOpen) /\ SrcAfter(h, p) # {}}
      IN /\ good = {} => image = Undefined
         /\ good # {} =>
              \E p \in good :
                \E j \in SrcAfter(h, p) :
                  /\ \A q \in good : p <= q
                  /\ \A k \in SrcAfter(h, p) : k <= j
                  /\ image = Str(QuotedAt(h, j))
         /\ \A c \in ImgCases : h = c[1] => image = c[2]

\* an img tag with a src and, after it, a data-src: the data-src value comes out
C20_Witness ==
  \E s \in ArticleSlots :
    /\ OnlyDesc(s)
    /\ DescAt(s) = Tag2(Attr(<<"s", "r", "c">>, DQuote, <<"a">>),
                        Attr(<<"d", "a", "t", "a", "-", "s", "r", "c">>, DQuote, <<"z">>))
    /\ ArticleAt(s).image = Str(<<"z">>)

---------------------------------------------------------------------------
(* C21: when the page has taken in an answer whose JSON has no feeds key   *)
(* (the error body of GET), it stands with feeds = {}, sources = [],       *)
(* selected = "" and loading = false, and shows no card: the very state an *)
(* answer without any source would leave, with nothing that tells an error.*)

\* the page has processed a JSON body without a feeds key
TookError == cpc = "settled" /\ "feeds" \notin DOMAIN reply.data

C21_ErrorLeavesEmptyState ==
  TookError =>
    /\ feeds = <<>>
    /\ sources = <<>>
    /\ selected = <<>>
    /\ loading = FALSE
    /\ Cards = <<>>

C21_Witness ==
  /\ TookError
  /\ reply.status = 500
  /\ "error" \in DOMAIN reply.data
  /\ loading = FALSE
  /\ sources = <<>>

---------------------------------------------------------------------------
(* C22: from the mount until the JSON of the answer has been processed the *)
(* page is loading: loading = true, sources is empty and no card is shown; *)
(* and once loading is false it never is true again.                       *)

\* the request is on its way or its body is being read
InFlight == cpc \in {"mounting", "fetching", "parsing"}

C22_LoadingWhileInFlight ==
  /\ [](InFlight => (loading /\ sources = <<>> /\ Cards = <<>>))
  /\ [][loading' => loading]_vars

\* the answer is there with its sources, its body not yet processed
C22_Witness ==
  /\ cpc = "parsing"
  /\ reply.json
  /\ "feeds" \in DOMAIN reply.data
  /\ Len(reply.data.feeds) = Len(FEEDS)
  /\ loading
  /\ sidebarOpen

---------------------------------------------------------------------------
(* C23: the page calls fetch("/api/trending") once, as it mounts: in every *)
(* state after the mount exactly one request has been issued, whatever     *)
(* tabs were picked, however the sidebar was opened and closed, whatever   *)
(* state was set and rendered.                                             *)

C23_OneRequestPerMount ==
  requests = IF cpc = "mounting" THEN 0 ELSE 1

\* the answer is processed, another tab than the first is picked, the sidebar is open
C23_Witness ==
  /\ requests = 1
  /\ cpc = "settled"
  /\ Len(sources) = Len(FEEDS)
  /\ selected = sources[Len(sources)]
  /\ sidebarOpen

---------------------------------------------------------------------------
(* C24: once the fetch of the source at position k has thrown, the         *)
(* invocation starts no fetch of a source after k, and it has produced the *)
(* 500 response from that failure.                                         *)

C24_FailFast ==
  \A k \in 1..Len(upstream) :
    ~upstream[k].ok =>
      /\ k = Len(upstream)
      /\ inflight = {}
      /\ pc = "done"
      /\ IsResponse(500)

\* the part of C24 that the code keeps: the loop stops at the first failure, and
\* the outcome of the invocation is what the catch clause makes of that failure
C24_NoFetchAfterFailure ==
  \A k \in 1..Len(upstream) :
    ~upstream[k].ok =>
      /\ k = Len(upstream)
      /\ \A j \in 1..(k - 1) : upstream[j].ok
      /\ inflight = {}
      /\ pc = "done"
      /\ response = Catch(upstream[k].thrown)

---------------------------------------------------------------------------
(* C25: two invocations whose steps interleave at the awaits do not touch  *)
(* each other: the mapping of each holds what its own fetches gave and     *)
(* nothing else, and each ends with the response it would have given alone *)
(* (a failure of one neither fails the other nor takes keys from it).      *)

\* the invocations there are: the running one, and the suspended one if any
Invocations == {Locals} \cup (IF peer = NoPeer THEN {} ELSE {peer})

\* the mapping an invocation holds is made of its own first n fetches
OwnResults(inv, n) ==
  /\ ObjKeys(inv.results) = [i \in 1..n |-> FEEDS[i].name]
  /\ \A i \in 1..n :
       ObjGet(inv.results, FEEDS[i].name) = MapItems(inv.world[i].parsed, FEEDS[i])

C25_InvocationsIsolated ==
  \A inv \in Invocations :
    /\ \A i \in 1..Len(inv.upstream) :
         /\ inv.upstream[i].ok = inv.world[i].ok
         /\ inv.upstream[i].url = FEEDS[i].url
         /\ inv.upstream[i].ok => inv.upstream[i].parsed = inv.world[i].parsed
    /\ inv.pc \in {"loop", "await"} => OwnResults(inv, inv.idx - 1)
    /\ inv.pc = "done" => inv.response = Aggregate(inv.world)

C25_Witness ==
  /\ peer # NoPeer
  /\ pc = "done"
  /\ peer.pc = "done"
  /\ peer.response.t = "response"
  /\ peer.response.status = 500
  /\ Len(peer.upstream) = 4
  /\ response.t = "response"
  /\ response.status = 200
  /\ Len(response.body.feeds) = Len(FEEDS)
  /\ world # peer.world

---------------------------------------------------------------------------
(* C26: when every started fetch settles, every invocation returns a       *)
(* response in the end, the 200 or the 500; while a fetch is pending it    *)
(* returns none.                                                           *)

\* GET has returned a response, the 200 one or the 500 one
Responded == response.t = "response" /\ response.status \in {200, 500}

C26_EveryInvocationResponds == (pc \in {"loop", "await"}) ~> Responded

\* the parts of C26 that the code keeps: every invocation ends (with a response
\* or with a rejection), there is no response while a fetch is pending, and the
\* wait ends by nothing but the settling of that fetch
C26_EveryInvocationEnds == (pc \in {"loop", "await"}) ~> (pc = "done")

C26_SilentWhileWaiting ==
  /\ [](pc = "await" => (response = NoResponse /\ inflight # {}))
  /\ [][(pc = "await" /\ pc' # "await") => inflight' # inflight]_vars

---------------------------------------------------------------------------
(* C27: loading ends by the processing of successfully parsed JSON and by  *)
(* nothing else.  When the request fails in the network or the body is no  *)
(* JSON, the chain is rejected, no state is set, and loading stays true    *)
(* from then on.                                                           *)

C27_LoadingEndsOnlyByJson ==
  /\ [](cpc = "rejected" =>
          (loading /\ feeds = <<>> /\ sources = <<>> /\ selected = <<>> /\ Cards = <<>>))
  /\ [][cpc = "rejected" => (cpc' = "rejected" /\ loading')]_vars
  /\ [][(loading /\ ~loading') =>
          (cpc = "parsing" /\ reply.json /\ cpc' = "settled")]_vars

C27_Witness ==
  /\ cpc = "rejected"
  /\ reply.t = "http"
  /\ ~reply.json
  /\ reply.status = 500
  /\ loading
  /\ sidebarOpen

---------------------------------------------------------------------------
(* C28: selected is "" or one of sources; sources is the list of the keys  *)
(* of feeds; right after the JSON is processed selected is the first key   *)
(* ("" when there is none), and later it changes only by the click on a    *)
(* tab, to the name of that tab; the cards shown are feeds[selected].      *)

\* s is one of the elements of the list srcs
Among(s, srcs) == \E i \in 1..Len(srcs) : srcs[i] = s

C28_SelectedAmongSources ==
  /\ [](/\ selected = <<>> \/ Among(selected, sources)
        /\ sources = ObjKeys(feeds)
        /\ (~loading /\ selected # <<>>) =>
             (HasKey(feeds, selected) /\ Cards = ObjGet(feeds, selected))
        /\ selected = <<>> => Cards = <<>>)
  /\ [][(cpc = "parsing" /\ cpc' = "settled") =>
          selected' = IF Len(ObjKeys(feeds')) > 0 THEN ObjKeys(feeds')[1] ELSE <<>>]_vars
  /\ [][selected' # selected =>
          \/ cpc = "parsing" /\ cpc' = "settled"
          \/ cpc = "settled" /\ cpc' = "settled" /\ Among(selected', sources)
                             /\ sources' = sources /\ feeds' = feeds]_vars

C28_Witness ==
  /\ cpc = "settled"
  /\ Len(sources) = Len(FEEDS)
  /\ selected = sources[2]
  /\ ~loading
  /\ Len(Cards) = MaxArticles

---------------------------------------------------------------------------
(* C29: the channel of every article is a non-empty string.  An empty      *)
(* creator or channel title counts as absent, and the chain ends at the    *)
(* configured name of the source, which is never empty.                    *)

C29_ChannelNonEmpty ==
  /\ \A i \in 1..Len(FEEDS) : Len(FEEDS[i].name) > 0
  /\ \A s \in ArticleSlots :
       /\ NonEmpty(ArticleAt(s).channel)
       /\ (EntryAt(s).creator = Str(<<>>) /\ ~NonEmpty(TitleAt(s))) =>
            ArticleAt(s).channel = NameAt(s)
       /\ (~NonEmpty(EntryAt(s).creator) /\ TitleAt(s) = Str(<<>>)) =>
            ArticleAt(s).channel = NameAt(s)

C29_Witness ==
  \E s \in ArticleSlots :
    /\ s[1] = Len(FEEDS)
    /\ EntryAt(s).creator = Str(<<>>)
    /\ TitleAt(s) = Str(<<>>)
    /\ ArticleAt(s).channel = Str(FEEDS[Len(FEEDS)].name)

====
